---- MODULE Spec2Model ----
(***************************************************************************)
(* Model of generate_config.py: merging the accounts of the environment    *)
(* variables SKLAND_ACCOUNTS_JSON, SKLAND_TOKEN and SKLAND_NICKNAME into    *)
(* config.yaml.                                                            *)
(*                                                                         *)
(* Strings are sequences of Unicode code points, so that str.strip,        *)
(* str.endswith, slicing and the ordering used by list.sort are computed   *)
(* on the characters.  A JSON value is a record [t, s, n]: t is its type    *)
(* ("str", "null", "num", "list"), s the characters of a string, n the     *)
(* number or the length of a list.  A JSON object (a dict) is the sequence *)
(* of its [k, v] pairs in insertion order; an array element that is not an *)
(* object has t # "obj".                                                   *)
(***************************************************************************)
EXTENDS Integers, Sequences, FiniteSets, TLC

\* Longest bulk array drawn for SKLAND_ACCOUNTS_JSON.
MaxBulk == 3

----------------------------------------------------------------------------
\* JSON values

Str(s) == [t |-> "str", s |-> s, n |-> 0]
Null == [t |-> "null", s |-> <<>>, n |-> 0]
Num(n) == [t |-> "num", s |-> <<>>, n |-> n]
List(n) == [t |-> "list", s |-> <<>>, n |-> n]

Obj(kv) == [t |-> "obj", kv |-> kv, v |-> Null]
NonObj(v) == [t |-> "val", kv |-> <<>>, v |-> v]

\* bool(x) of a JSON value: the empty string, None, 0 and [] are false.
Truthy(x) ==
    CASE x.t = "str" -> x.s # <<>>
      [] x.t = "null" -> FALSE
      [] x.t = "num" -> x.n # 0
      [] x.t = "list" -> x.n # 0

\* hash(x) raises TypeError for a list.
Hashable(x) == x.t # "list"

isinstance_dict(item) == item.t = "obj"

len(item) == Len(item.kv)

HasKey(item, key) == \E i \in 1..Len(item.kv) : item.kv[i].k = key

\* item.get(key, ''): the keys of a dict are distinct.
Get(item, key) ==
    IF HasKey(item, key)
    THEN item.kv[CHOOSE i \in 1..Len(item.kv) : item.kv[i].k = key].v
    ELSE Str(<<>>)

----------------------------------------------------------------------------
\* Program constants

MARKER == <<95, 69, 78, 68>>

DEFAULT_NICKNAME_PREFIX == <<26410, 21629, 21517, 36134, 21495>>

STANDALONE_NICKNAME == DEFAULT_NICKNAME_PREFIX \o <<45, 29420, 31435>>

KEY_NICKNAME == <<110, 105, 99, 107, 110, 97, 109, 101>>

KEY_TOKEN == <<116, 111, 107, 101, 110>>

\* Characters str.strip() removes.
Whitespace ==
    {9, 10, 11, 12, 13, 28, 29, 30, 31, 32, 133, 160, 5760, 8232, 8233, 8239,
     8287, 12288} \cup (8192..8202)

----------------------------------------------------------------------------
\* String functions

RECURSIVE lstrip(_)
lstrip(s) ==
    IF s # <<>> /\ Head(s) \in Whitespace THEN lstrip(Tail(s)) ELSE s

RECURSIVE rstrip(_)
rstrip(s) ==
    IF s # <<>> /\ s[Len(s)] \in Whitespace
    THEN rstrip(SubSeq(s, 1, Len(s) - 1))
    ELSE s

strip(s) == rstrip(lstrip(s))

endswith(s, suffix) ==
    /\ Len(s) >= Len(suffix)
    /\ SubSeq(s, Len(s) - Len(suffix) + 1, Len(s)) = suffix

remove_marker(secret_value) ==
    IF secret_value # <<>> /\ endswith(secret_value, MARKER)
    THEN SubSeq(secret_value, 1, Len(secret_value) - Len(MARKER))
    ELSE secret_value

\* str(n) of a natural number, as the f-string formats the counter.
RECURSIVE Decimal(_)
Decimal(n) ==
    IF n < 10 THEN <<48 + n>> ELSE Decimal(n \div 10) \o <<48 + (n % 10)>>

DefaultNickname(counter) == DEFAULT_NICKNAME_PREFIX \o <<45>> \o Decimal(counter)

----------------------------------------------------------------------------
\* Shape detection and the per-entry decisions of load_and_merge_accounts

\* all(isinstance(item, dict) and len(item) == 1 for item in raw_data)
IsCompact(data) ==
    \A i \in 1..Len(data) : isinstance_dict(data[i]) /\ len(data[i]) = 1

\* all(isinstance(item, dict) and 'nickname' in item and 'token' in item ...)
IsExplicit(data) ==
    \A i \in 1..Len(data) :
        /\ isinstance_dict(data[i])
        /\ HasKey(data[i], KEY_NICKNAME)
        /\ HasKey(data[i], KEY_TOKEN)

\* The if / elif / else chain over the two all(...) tests.
DetectShape_ExplicitFirst(data) ==
    IF IsExplicit(data) THEN "explicit"
    ELSE IF IsCompact(data) THEN "compact"
    ELSE "invalid"

DetectShape(data) ==
    IF IsCompact(data) THEN "compact"
    ELSE IF IsExplicit(data) THEN "explicit"
    ELSE "invalid"

\* nickname = raw_nickname if raw_nickname else get_next_default_nickname():
\* the counter after the line, and the nickname it yields.
CounterAfter(raw_nickname, counter) ==
    IF Truthy(raw_nickname) THEN counter ELSE counter + 1

NicknameOf(raw_nickname, counter) ==
    IF Truthy(raw_nickname)
    THEN raw_nickname
    ELSE Str(DefaultNickname(CounterAfter(raw_nickname, counter)))

\* if token and token not in seen_tokens
IsNewToken_NoCheck(token, seen) == TRUE

IsNewToken(token, seen) == token \notin seen

Account(nickname, token) == [nickname |-> nickname, token |-> token]

\* final_accounts.append({'nickname': nickname, 'token': token})
AppendAccount_Front(accs, nickname, token) ==
    <<Account(nickname, token)>> \o accs

AppendAccount(accs, nickname, token) == Append(accs, Account(nickname, token))

\* seen_tokens.add(token)
AddSeen_Forget(seen, token) == seen

AddSeen(seen, token) == seen \cup {token}

\* remove_marker(os.environ.get('SKLAND_NICKNAME', '').strip())
StandaloneNickname_MarkerFirst(value) == strip(remove_marker(value))

StandaloneNickname(value) == remove_marker(strip(value))

\* final_nickname = nickname if nickname else "未命名账号-独立"
FinalNickname(nickname) ==
    IF nickname # <<>> THEN nickname ELSE STANDALONE_NICKNAME

----------------------------------------------------------------------------
\* accounts.sort(key=lambda x: x.get('nickname', ''))

RECURSIVE SeqLess(_, _)
SeqLess(a, b) ==
    IF b = <<>> THEN FALSE
    ELSE IF a = <<>> THEN TRUE
    ELSE IF Head(a) # Head(b) THEN Head(a) < Head(b)
    ELSE SeqLess(Tail(a), Tail(b))

\* x < y raises TypeError unless both are strings or both are numbers
\* (lists occur in the inputs only as tokens).
Comparable(x, y) == x.t = y.t /\ x.t \in {"str", "num"}

KeyLess(x, y) == IF x.t = "str" THEN SeqLess(x.s, y.s) ELSE x.n < y.n

\* A sort of two or more elements compares every element with another one,
\* so it raises as soon as two keys cannot be compared.
SortRaises(accs) ==
    \E i, j \in 1..Len(accs) :
        i # j /\ ~Comparable(accs[i].nickname, accs[j].nickname)

RECURSIVE Insert_BeforeEqual(_, _)
Insert_BeforeEqual(sorted, x) ==
    IF sorted = <<>> THEN <<x>>
    ELSE IF ~KeyLess(Head(sorted).nickname, x.nickname) THEN <<x>> \o sorted
    ELSE <<Head(sorted)>> \o Insert_BeforeEqual(Tail(sorted), x)

RECURSIVE Insert(_, _)
Insert(sorted, x) ==
    IF sorted = <<>> THEN <<x>>
    ELSE IF KeyLess(x.nickname, Head(sorted).nickname) THEN <<x>> \o sorted
    ELSE <<Head(sorted)>> \o Insert(Tail(sorted), x)

RECURSIVE SortByNickname(_)
SortByNickname(accs) ==
    IF accs = <<>> THEN <<>>
    ELSE Insert(SortByNickname(SubSeq(accs, 1, Len(accs) - 1)), accs[Len(accs)])

----------------------------------------------------------------------------
\* Inputs: the environment and the file system before the run

T1 == <<116, 49>>
T2 == <<116, 50>>
T3 == <<116, 51>>
NickA == <<97>>
NickB == <<98>>

Pair(k, v) == [k |-> k, v |-> v]

Compact(k, v) == Obj(<<Pair(k, v)>>)

Explicit(nick, tok) == Obj(<<Pair(KEY_NICKNAME, nick), Pair(KEY_TOKEN, tok)>>)

\* Single-key objects: {"": "t1"}, {"": ""}, {"a": "t1"}, {"a": "t2"},
\* {"b": "t2"}, {"token": "t1"}, {"nickname": "t2"}, {"b": ["x"]}.
CompactItems ==
    { Compact(<<>>, Str(T1)), Compact(<<>>, Str(<<>>)), Compact(<<>>, Str(T2)),
      Compact(NickA, Str(T1)), Compact(NickA, Str(T2)), Compact(NickB, Str(T2)),
      Compact(KEY_TOKEN, Str(T1)), Compact(KEY_NICKNAME, Str(T2)),
      Compact(NickB, List(1)) }

\* Objects with both keys; the third has the keys in the other order and an
\* extra key "note".
ExplicitItems ==
    { Explicit(Str(<<>>), Str(T1)), Explicit(Str(<<>>), Str(<<>>)),
      Explicit(Null, Str(T2)),
      Explicit(Str(NickA), Str(T1)), Explicit(Str(NickA), Str(T2)),
      Obj(<<Pair(KEY_TOKEN, Str(T2)), Pair(<<110, 111, 116, 101>>, Num(1)),
            Pair(KEY_NICKNAME, Str(NickB))>>),
      Explicit(Str(NickB), Null), Explicit(Num(5), Str(T1)),
      Explicit(Str(NickA), List(1)) }

\* One element of each kind the shape tests tell apart: the two valid
\* shapes, a string, the empty object, an object with two other keys and
\* an object that has a token but no nickname besides another key.
ShapeItems ==
    { Compact(NickA, Str(T1)), Explicit(Str(NickA), Str(T1)),
      Compact(KEY_NICKNAME, Str(T2)),
      NonObj(Str(T1)), Obj(<<>>),
      Obj(<<Pair(NickA, Str(T1)), Pair(NickB, Str(T2))>>),
      Obj(<<Pair(KEY_TOKEN, Str(T1)), Pair(NickA, Str(T2))>>) }

ArraysOver(items) == UNION { [1..n -> items] : n \in 0..MaxBulk }

BulkArrays == ArraysOver(CompactItems) \cup ArraysOver(ExplicitItems)
                \cup ArraysOver(ShapeItems)

\* SKLAND_ACCOUNTS_JSON: unset or empty, text that is not JSON, JSON whose
\* root is not an array, or a JSON array.
JsonInputs ==
    { [kind |-> "empty", isList |-> FALSE, items |-> <<>>],
      [kind |-> "malformed", isList |-> FALSE, items |-> <<>>],
      [kind |-> "json", isList |-> FALSE, items |-> <<>>] }
    \cup { [kind |-> "json", isList |-> TRUE, items |-> a] : a \in BulkArrays }

\* SKLAND_TOKEN
TokenInputs == {<<>>, T1, T3}

\* SKLAND_NICKNAME: "", "a", "  A_END  "
NicknameInputs == {<<>>, NickA, <<32, 32, 65, 95, 69, 78, 68, 32, 32>>}

\* Values of SKLAND_NICKNAME around the marker and the whitespace:
\* "", "   ", "A", "A_END", "  A_END  ", "_END", " _END ", "A_END_END",
\* "A_END B", "A _END", "A_END\t\n", "_END_", " A B ", "END".
MarkerNicknames ==
    { <<>>, <<32, 32, 32>>, <<65>>, <<65, 95, 69, 78, 68>>,
      <<32, 32, 65, 95, 69, 78, 68, 32, 32>>, <<95, 69, 78, 68>>, <<32, 95, 69, 78, 68, 32>>,
      <<65, 95, 69, 78, 68, 95, 69, 78, 68>>, <<65, 95, 69, 78, 68, 32, 66>>,
      <<65, 32, 95, 69, 78, 68>>, <<65, 95, 69, 78, 68, 9, 10>>, <<95, 69, 78, 68, 95>>,
      <<32, 65, 32, 66, 32>>, <<69, 78, 68>> }

\* A few bulk inputs, one for every way through the bulk section.
SampleJson ==
    { [kind |-> "empty", isList |-> FALSE, items |-> <<>>],
      [kind |-> "malformed", isList |-> FALSE, items |-> <<>>],
      [kind |-> "json", isList |-> FALSE, items |-> <<>>],
      [kind |-> "json", isList |-> TRUE, items |->
          <<Compact(<<>>, Str(T1)), Compact(NickA, Str(T1)),
            Compact(NickB, Str(<<>>))>>],
      [kind |-> "json", isList |-> TRUE, items |->
          <<Explicit(Num(5), Str(T1)), Explicit(Str(<<>>), Str(T2))>>],
      [kind |-> "json", isList |-> TRUE, items |-> <<NonObj(Str(T1))>>] }

\* config.yaml before the run
FileInputs == {[state |-> "absent", users |-> <<>>],
               [state |-> "old", users |-> <<>>]}

----------------------------------------------------------------------------
\* State

VARIABLES
    json_str,                 \* os.environ.get('SKLAND_ACCOUNTS_JSON', '')
    env_token,                \* os.environ.get('SKLAND_TOKEN', '')
    env_nickname,             \* os.environ.get('SKLAND_NICKNAME', '')
    raw_data,                 \* the parsed array
    shape,                    \* branch taken: "none", "compact", "explicit"
    idx,                      \* position of the for loop in raw_data
    final_accounts,           \* accepted accounts, in order of acceptance
    seen_tokens,              \* tokens of the accepted accounts
    unnamed_account_counter,  \* the global counter
    accounts,                 \* main's list after accounts.sort
    config_file,              \* config.yaml
    log,                      \* warnings, errors and results printed
    exit_status,              \* -1 while the process runs, then its status
    pc                        \* position in main / load_and_merge_accounts

vars == <<json_str, env_token, env_nickname, raw_data, shape, idx,
          final_accounts, seen_tokens, unnamed_account_counter, accounts,
          config_file, log, exit_status, pc>>

env == <<json_str, env_token, env_nickname>>

Line(level, source, what) == [level |-> level, source |-> source, what |-> what]

Init ==
    /\ json_str \in JsonInputs
    /\ env_token \in TokenInputs
    /\ env_nickname \in NicknameInputs
    /\ config_file \in FileInputs
    /\ raw_data = <<>>
    /\ shape = "none"
    /\ idx = 0
    /\ final_accounts = <<>>
    /\ seen_tokens = {}
    /\ unnamed_account_counter = 0
    /\ accounts = <<>>
    /\ log = <<>>
    /\ exit_status = -1
    /\ pc = "parse"

\* print(error); sys.exit(1), or an exception nothing catches
Exit1_Status2(source, what) ==
    /\ log' = Append(log, Line("error", source, what))
    /\ exit_status' = 2
    /\ pc' = "done"

Exit1(source, what) ==
    /\ log' = Append(log, Line("error", source, what))
    /\ exit_status' = 1
    /\ pc' = "done"

----------------------------------------------------------------------------
\* 1. SKLAND_ACCOUNTS_JSON

\* if json_str: is false
NoBulk ==
    /\ pc = "parse"
    /\ json_str.kind = "empty"
    /\ pc' = "standalone"
    /\ UNCHANGED <<env, raw_data, shape, idx, final_accounts, seen_tokens,
                   unnamed_account_counter, accounts, config_file, log,
                   exit_status>>

\* json.loads raises JSONDecodeError
JsonDecodeError ==
    /\ pc = "parse"
    /\ json_str.kind = "malformed"
    /\ Exit1("bulk", "JSONDecodeError")
    /\ UNCHANGED <<env, raw_data, shape, idx, final_accounts, seen_tokens,
                   unnamed_account_counter, accounts, config_file>>

\* if not isinstance(raw_data, list): raise TypeError
RootNotArray ==
    /\ pc = "parse"
    /\ json_str.kind = "json"
    /\ ~json_str.isList
    /\ Exit1("bulk", "TypeError")
    /\ UNCHANGED <<env, raw_data, shape, idx, final_accounts, seen_tokens,
                   unnamed_account_counter, accounts, config_file>>

\* one of the two all(...) tests holds
ShapeDetected ==
    /\ pc = "parse"
    /\ json_str.kind = "json"
    /\ json_str.isList
    /\ DetectShape(json_str.items) # "invalid"
    /\ raw_data' = json_str.items
    /\ shape' = DetectShape(json_str.items)
    /\ idx' = 1
    /\ log' = Append(log, Line("info", shape', "detected"))
    /\ pc' = "bulk"
    /\ UNCHANGED <<env, final_accounts, seen_tokens, unnamed_account_counter,
                   accounts, config_file, exit_status>>

\* else: raise TypeError
ShapeInvalid ==
    /\ pc = "parse"
    /\ json_str.kind = "json"
    /\ json_str.isList
    /\ DetectShape(json_str.items) = "invalid"
    /\ raw_data' = json_str.items
    /\ Exit1("bulk", "TypeError")
    /\ UNCHANGED <<env, shape, idx, final_accounts, seen_tokens,
                   unnamed_account_counter, accounts, config_file>>

\* The body of either for loop for one item.
ProcessEntry(raw_nickname, token) ==
    LET nickname == NicknameOf(raw_nickname, unnamed_account_counter)
    IN  /\ unnamed_account_counter' =
               CounterAfter(raw_nickname, unnamed_account_counter)
        /\ IF Truthy(token) /\ ~Hashable(token)
           THEN \* token not in seen_tokens raises TypeError
                /\ Exit1("bulk", "TypeError")
                /\ UNCHANGED <<final_accounts, seen_tokens, idx>>
           ELSE /\ IF Truthy(token) /\ IsNewToken(token, seen_tokens)
                   THEN /\ final_accounts' =
                               AppendAccount(final_accounts, nickname, token)
                        /\ seen_tokens' = AddSeen(seen_tokens, token)
                        /\ UNCHANGED log
                   ELSE /\ log' = Append(log, Line("warn", shape,
                               IF ~Truthy(token) THEN "empty_token"
                                                 ELSE "duplicate_token"))
                        /\ UNCHANGED <<final_accounts, seen_tokens>>
                /\ idx' = idx + 1
                /\ UNCHANGED <<exit_status, pc>>
        /\ UNCHANGED <<env, raw_data, shape, accounts, config_file>>

CompactEntry ==
    /\ pc = "bulk"
    /\ shape = "compact"
    /\ idx <= Len(raw_data)
    /\ ProcessEntry(Str(raw_data[idx].kv[1].k), raw_data[idx].kv[1].v)

ExplicitEntry ==
    /\ pc = "bulk"
    /\ shape = "explicit"
    /\ idx <= Len(raw_data)
    /\ ProcessEntry(Get(raw_data[idx], KEY_NICKNAME), Get(raw_data[idx], KEY_TOKEN))

\* the loop is exhausted: print the number of accounts loaded
BulkLoaded ==
    /\ pc = "bulk"
    /\ idx > Len(raw_data)
    /\ log' = Append(log, Line("info", "bulk", "loaded"))
    /\ pc' = "standalone"
    /\ UNCHANGED <<env, raw_data, shape, idx, final_accounts, seen_tokens,
                   unnamed_account_counter, accounts, config_file, exit_status>>

----------------------------------------------------------------------------
\* 2. SKLAND_TOKEN and SKLAND_NICKNAME

Standalone_DupFatal ==
    /\ pc = "standalone"
    /\ LET token == env_token
           nickname == StandaloneNickname(env_nickname)
       IN  IF token # <<>>
           THEN IF IsNewToken(Str(token), seen_tokens)
                THEN /\ final_accounts' = AppendAccount(final_accounts,
                            Str(FinalNickname(nickname)), Str(token))
                     /\ seen_tokens' = AddSeen(seen_tokens, Str(token))
                     /\ log' = log \o <<Line("info", "standalone", "detected"),
                                        Line("info", "standalone", "loaded")>>
                     /\ pc' = "final"
                     /\ UNCHANGED exit_status
                ELSE /\ Exit1("standalone", "duplicate_token")
                     /\ UNCHANGED <<final_accounts, seen_tokens>>
           ELSE /\ pc' = "final"
                /\ UNCHANGED <<final_accounts, seen_tokens, log, exit_status>>
    /\ UNCHANGED <<env, raw_data, shape, idx, unnamed_account_counter,
                   accounts, config_file>>

Standalone ==
    /\ pc = "standalone"
    /\ LET token == env_token
           nickname == StandaloneNickname(env_nickname)
       IN  IF token # <<>>
           THEN IF IsNewToken(Str(token), seen_tokens)
                THEN /\ final_accounts' = AppendAccount(final_accounts,
                            Str(FinalNickname(nickname)), Str(token))
                     /\ seen_tokens' = AddSeen(seen_tokens, Str(token))
                     /\ log' = log \o <<Line("info", "standalone", "detected"),
                                        Line("info", "standalone", "loaded")>>
                ELSE /\ log' = log \o <<Line("info", "standalone", "detected"),
                                        Line("warn", "standalone", "duplicate_token")>>
                     /\ UNCHANGED <<final_accounts, seen_tokens>>
           ELSE UNCHANGED <<final_accounts, seen_tokens, log>>
    /\ pc' = "final"
    /\ UNCHANGED <<env, raw_data, shape, idx, unnamed_account_counter,
                   accounts, config_file, exit_status>>

----------------------------------------------------------------------------
\* 3. final check, then main

NoAccounts_WritesEmpty ==
    /\ pc = "final"
    /\ final_accounts = <<>>
    /\ config_file' = [state |-> "written", users |-> <<>>]
    /\ Exit1("merge", "no_accounts")
    /\ UNCHANGED <<env, raw_data, shape, idx, final_accounts, seen_tokens,
                   unnamed_account_counter, accounts>>

NoAccounts ==
    /\ pc = "final"
    /\ final_accounts = <<>>
    /\ Exit1("merge", "no_accounts")
    /\ UNCHANGED <<env, raw_data, shape, idx, final_accounts, seen_tokens,
                   unnamed_account_counter, accounts, config_file>>

ReturnAccounts ==
    /\ pc = "final"
    /\ final_accounts # <<>>
    /\ pc' = "sort"
    /\ UNCHANGED <<env, raw_data, shape, idx, final_accounts, seen_tokens,
                   unnamed_account_counter, accounts, config_file, log,
                   exit_status>>

SortAccounts ==
    /\ pc = "sort"
    /\ ~SortRaises(final_accounts)
    /\ accounts' = SortByNickname(final_accounts)
    /\ pc' = "write"
    /\ UNCHANGED <<env, raw_data, shape, idx, final_accounts, seen_tokens,
                   unnamed_account_counter, config_file, log, exit_status>>

\* the TypeError of the comparison is caught nowhere: traceback, status 1
SortTypeError ==
    /\ pc = "sort"
    /\ SortRaises(final_accounts)
    /\ Exit1("sort", "TypeError")
    /\ UNCHANGED <<env, raw_data, shape, idx, final_accounts, seen_tokens,
                   unnamed_account_counter, accounts, config_file>>

\* open('config.yaml', 'w') and yaml.dump succeed
WriteConfig ==
    /\ pc = "write"
    /\ config_file' = [state |-> "written", users |-> accounts]
    /\ log' = Append(log, Line("info", "write", "generated"))
    /\ exit_status' = 0
    /\ pc' = "done"
    /\ UNCHANGED <<env, raw_data, shape, idx, final_accounts, seen_tokens,
                   unnamed_account_counter, accounts>>

\* open raises: the file is as it was
OpenFails ==
    /\ pc = "write"
    /\ Exit1("write", "Exception")
    /\ UNCHANGED <<env, raw_data, shape, idx, final_accounts, seen_tokens,
                   unnamed_account_counter, accounts, config_file>>

\* yaml.dump raises after open has truncated the file
DumpFails ==
    /\ pc = "write"
    /\ config_file' = [state |-> "truncated", users |-> <<>>]
    /\ Exit1("write", "Exception")
    /\ UNCHANGED <<env, raw_data, shape, idx, final_accounts, seen_tokens,
                   unnamed_account_counter, accounts>>

Next ==
    \/ NoBulk
    \/ JsonDecodeError
    \/ RootNotArray
    \/ ShapeDetected
    \/ ShapeInvalid
    \/ CompactEntry
    \/ ExplicitEntry
    \/ BulkLoaded
    \/ Standalone
    \/ NoAccounts
    \/ ReturnAccounts
    \/ SortAccounts
    \/ SortTypeError
    \/ WriteConfig
    \/ OpenFails
    \/ DumpFails

Spec == Init /\ [][Next]_vars

\* The same program on the inputs that exercise the standalone nickname.
InitNick ==
    /\ json_str \in SampleJson
    /\ env_token \in TokenInputs
    /\ env_nickname \in MarkerNicknames
    /\ config_file \in FileInputs
    /\ raw_data = <<>>
    /\ shape = "none"
    /\ idx = 0
    /\ final_accounts = <<>>
    /\ seen_tokens = {}
    /\ unnamed_account_counter = 0
    /\ accounts = <<>>
    /\ log = <<>>
    /\ exit_status = -1
    /\ pc = "parse"

SpecNick == InitNick /\ [][Next]_vars

----------------------------------------------------------------------------
\* Vocabulary of the properties, stated on the inputs

\* A token that counts as present: not "", null, 0 or [].
NonEmptyValue(v) == v \notin {Str(<<>>), Null, Num(0), List(0)}

FieldOf(item, key) ==
    item.kv[CHOOSE i \in 1..Len(item.kv) : item.kv[i].k = key].v

\* The candidate a bulk element stands for under the detected shape.
BulkCandidate(item) ==
    IF shape = "compact"
    THEN [nickname |-> Str(item.kv[1].k), token |-> item.kv[1].v]
    ELSE [nickname |-> FieldOf(item, KEY_NICKNAME),
          token |-> FieldOf(item, KEY_TOKEN)]

BulkCandidates == [i \in 1..Len(raw_data) |-> BulkCandidate(raw_data[i])]

\* All candidates in processing order: the bulk entries, then the pair.
Candidates ==
    BulkCandidates \o <<[nickname |-> Str(env_nickname), token |-> Str(env_token)]>>

\* The merge is under way and has not been aborted.
InMerge == pc \in {"bulk", "standalone", "final", "sort", "write"}

AfterStandalone == pc \in {"final", "sort", "write"}

\* Number of candidates whose processing is complete.
Processed ==
    IF pc = "bulk" THEN idx - 1
    ELSE IF pc = "standalone" THEN Len(raw_data)
    ELSE Len(raw_data) + 1

FirstIndex(cs, tok) == CHOOSE i \in 1..Len(cs) :
    /\ cs[i].token = tok
    /\ \A j \in 1..(i - 1) : cs[j].token # tok

\* Tokens of the first occurrences of the non-empty tokens of cs, in order.
RECURSIVE FirstOccurrences(_)
FirstOccurrences(cs) ==
    IF cs = <<>> THEN <<>>
    ELSE LET n == Len(cs)
             rest == FirstOccurrences(SubSeq(cs, 1, n - 1))
         IN  IF /\ NonEmptyValue(cs[n].token)
                /\ \A i \in 1..(n - 1) : cs[i].token # cs[n].token
             THEN Append(rest, cs[n].token)
             ELSE rest

TokensOf(accs) == [i \in 1..Len(accs) |-> accs[i].token]

Warned(source, what) ==
    \E i \in 1..Len(log) : log[i] = Line("warn", source, what)

----------------------------------------------------------------------------
\* C1: at every point of the merge and in the written file, every accepted
\* account has a non-empty token, no two accepted accounts have the same
\* token, and seen_tokens is exactly the set of the accepted tokens.
C1_UniqueTokens ==
    /\ \A i \in 1..Len(final_accounts) : NonEmptyValue(final_accounts[i].token)
    /\ \A i, j \in 1..Len(final_accounts) :
           i # j => final_accounts[i].token # final_accounts[j].token
    /\ seen_tokens = {final_accounts[i].token : i \in 1..Len(final_accounts)}
    /\ \A i, j \in 1..Len(config_file.users) :
           /\ NonEmptyValue(config_file.users[i].token)
           /\ i # j => config_file.users[i].token # config_file.users[j].token

\* Both sources contributed, and a duplicate and an empty token were met.
C1_Witness ==
    /\ pc = "final"
    /\ Len(final_accounts) >= 2
    /\ final_accounts[Len(final_accounts)].token = Str(env_token)
    /\ Warned(shape, "duplicate_token")
    /\ Warned(shape, "empty_token")

\* C2: candidates are processed in order, bulk entries first and the
\* standalone pair last; the accepted accounts are the first candidates of
\* each non-empty token, in that order, a named bulk candidate keeps its
\* nickname, and a standalone token that a bulk candidate carries adds
\* nothing.
C2_FirstCandidateWins ==
    InMerge =>
        /\ TokensOf(final_accounts) =
               FirstOccurrences(SubSeq(Candidates, 1, Processed))
        /\ \A i \in 1..Len(final_accounts) :
               LET f == FirstIndex(Candidates, final_accounts[i].token)
               IN  (f <= Len(raw_data) /\ NonEmptyValue(Candidates[f].nickname))
                       => final_accounts[i].nickname = Candidates[f].nickname
        /\ (AfterStandalone /\ \E i \in 1..Len(raw_data) :
                                   BulkCandidates[i].token = Str(env_token))
               => TokensOf(final_accounts) = FirstOccurrences(BulkCandidates)

\* The standalone token equals that of a named bulk account and was dropped.
C2_Witness ==
    /\ pc = "final"
    /\ env_token # <<>>
    /\ Warned("standalone", "duplicate_token")
    /\ \E i \in 1..Len(final_accounts) :
           /\ final_accounts[i].token = Str(env_token)
           /\ final_accounts[i].nickname = Str(NickA)
    /\ StandaloneNickname(env_nickname) # NickA
    /\ Len(final_accounts) >= 2

\* C4: with no standalone token, a bulk array of either shape yields as
\* many accounts as it has distinct non-empty tokens.
DistinctBulkTokens ==
    {BulkCandidates[i].token : i \in 1..Len(raw_data)}
        \ {Str(<<>>), Null, Num(0), List(0)}

C4_CountDistinct ==
    /\ (pc = "standalone" /\ shape # "none")
           => Len(final_accounts) = Cardinality(DistinctBulkTokens)
    /\ (config_file.state = "written" /\ shape # "none" /\ env_token = <<>>)
           => Len(config_file.users) = Cardinality(DistinctBulkTokens)

\* An explicit array with an empty token and a repeated token was written.
C4_Witness ==
    /\ config_file.state = "written"
    /\ env_token = <<>>
    /\ shape = "explicit"
    /\ Len(raw_data) >= 3
    /\ Len(config_file.users) < Len(raw_data)
    /\ Warned("explicit", "empty_token") \/ Warned("explicit", "duplicate_token")

\* C3: an entry skipped for an empty or duplicate token does not advance
\* the counter: the counter is the number of accepted bulk accounts that had
\* no nickname, and the k-th of them is named with the suffix k.
UnnamedAccepted ==
    {i \in 1..Len(final_accounts) :
        LET f == FirstIndex(Candidates, final_accounts[i].token)
        IN  f <= Len(raw_data) /\ ~NonEmptyValue(Candidates[f].nickname)}

C3_CounterCountsAccepted ==
    (InMerge /\ shape # "none") =>
        /\ unnamed_account_counter = Cardinality(UnnamedAccepted)
        /\ \A i \in UnnamedAccepted :
               final_accounts[i].nickname =
                   Str(DefaultNickname(Cardinality({j \in UnnamedAccepted : j <= i})))

\* C5: a finished run has status 0 exactly when an account was accepted and
\* config.yaml was written; malformed JSON, a root that is not an array, an
\* array of neither shape, no accepted account and a failed write all give
\* status 1; a run that only met empty or duplicate tokens or empty
\* nicknames ends with the status it would have had without them.
AllSingleKey(items) ==
    \A i \in 1..Len(items) : items[i].t = "obj" /\ Len(items[i].kv) = 1

AllBothKeys(items) ==
    \A i \in 1..Len(items) :
        /\ items[i].t = "obj"
        /\ \E k \in 1..Len(items[i].kv) : items[i].kv[k].k = KEY_NICKNAME
        /\ \E k \in 1..Len(items[i].kv) : items[i].kv[k].k = KEY_TOKEN

LastLine == log[Len(log)]

WriteFailed == log # <<>> /\ LastLine = Line("error", "write", "Exception")

C5_ExitStatus ==
    /\ pc # "done" => exit_status = -1
    /\ pc = "done" =>
        /\ exit_status \in {0, 1}
        /\ exit_status = 0 <=>
               (final_accounts # <<>> /\ config_file.state = "written"
                   /\ ~WriteFailed)
        /\ json_str.kind = "malformed" => exit_status = 1
        /\ (json_str.kind = "json" /\ ~json_str.isList) => exit_status = 1
        /\ (json_str.kind = "json" /\ json_str.isList
               /\ ~AllSingleKey(json_str.items) /\ ~AllBothKeys(json_str.items))
               => exit_status = 1
        /\ final_accounts = <<>> => exit_status = 1
        /\ WriteFailed => exit_status = 1
        /\ exit_status = 1 => LastLine.level = "error"
        /\ exit_status = 0 => \A i \in 1..Len(log) : log[i].level # "error"

\* A run that dropped an empty and a duplicate token and named an account
\* itself still ends with status 0.
C5_Witness ==
    /\ pc = "done"
    /\ exit_status = 0
    /\ Warned(shape, "empty_token")
    /\ Warned("standalone", "duplicate_token")
    /\ unnamed_account_counter > 0

\* C6: config.yaml is touched only once load_and_merge_accounts has
\* returned an account: a run that fails before the write leaves the file as
\* it was, and a bulk parse or shape error ends the run before the
\* standalone pair is looked at.
FailedBeforeWrite ==
    pc = "done" /\ exit_status # 0 /\ LastLine.source # "write"

BulkRejected ==
    \/ json_str.kind = "malformed"
    \/ json_str.kind = "json" /\ ~json_str.isList
    \/ json_str.kind = "json" /\ json_str.isList
           /\ ~AllSingleKey(json_str.items) /\ ~AllBothKeys(json_str.items)

C6_FileUntouched ==
    /\ config_file \notin FileInputs => (pc = "done" /\ final_accounts # <<>>)
    /\ FailedBeforeWrite => config_file \in FileInputs
    /\ (BulkRejected /\ pc # "parse") =>
           /\ pc = "done"
           /\ final_accounts = <<>>
           /\ \A i \in 1..Len(log) : log[i].source # "standalone"

\* No account at all: the run failed and the existing file is still there.
C6_Witness ==
    /\ pc = "done"
    /\ exit_status = 1
    /\ json_str.kind = "empty"
    /\ env_token = <<>>
    /\ config_file.state = "old"

\* C7 as stated: every candidate dropped for an empty or duplicate token,
\* from the bulk array or the standalone pair, gets a warning naming its
\* source, leaves the accepted accounts alone and lets the run go on with
\* the next candidate.
AcceptedTokens == {final_accounts[i].token : i \in 1..Len(final_accounts)}

BulkDrop ==
    /\ pc = "bulk"
    /\ idx <= Len(raw_data)
    /\ \/ ~NonEmptyValue(BulkCandidates[idx].token)
       \/ BulkCandidates[idx].token \in AcceptedTokens

StandaloneDuplicate ==
    pc = "standalone" /\ env_token # <<>> /\ Str(env_token) \in AcceptedTokens

\* a nickname was supplied, but no token
StandaloneEmpty ==
    pc = "standalone" /\ env_token = <<>> /\ env_nickname # <<>>

WarnsNow(source) ==
    /\ Len(log') > Len(log)
    /\ SubSeq(log', 1, Len(log)) = log
    /\ log'[Len(log')].level = "warn"
    /\ log'[Len(log')].source = source
    /\ log'[Len(log')].what \in {"empty_token", "duplicate_token"}

BulkDropContinues ==
    /\ WarnsNow(shape)
    /\ final_accounts' = final_accounts
    /\ exit_status' = -1
    /\ pc' = "bulk"
    /\ idx' = idx + 1

StandaloneDropContinues ==
    /\ WarnsNow("standalone")
    /\ final_accounts' = final_accounts
    /\ exit_status' = -1
    /\ pc' = "final"

CodePointLeq(a, b) ==
    \/ Len(a) <= Len(b) /\ SubSeq(b, 1, Len(a)) = a
    \/ \E k \in 1..Len(a) :
           /\ k <= Len(b)
           /\ SubSeq(a, 1, k - 1) = SubSeq(b, 1, k - 1)
           /\ a[k] < b[k]

NicknameLeq(x, y) ==
    IF x.t = "str" /\ y.t = "str" THEN CodePointLeq(x.s, y.s)
    ELSE x.t = y.t /\ x.n <= y.n

Position(accs, a) == CHOOSE i \in 1..Len(accs) : accs[i] = a

SortedStable(users) ==
    /\ Len(users) = Len(final_accounts)
    /\ {users[i] : i \in 1..Len(users)} =
           {final_accounts[i] : i \in 1..Len(final_accounts)}
    /\ \A i, j \in 1..Len(users) :
           i < j =>
               /\ NicknameLeq(users[i].nickname, users[j].nickname)
               /\ users[i].nickname = users[j].nickname
                      => Position(final_accounts, users[i])
                             < Position(final_accounts, users[j])

C8_SortedStable ==
    /\ pc = "write" => SortedStable(accounts)
    /\ config_file.state = "written" => SortedStable(config_file.users)

\* Three accounts were written in another order than accepted, two of them
\* with the same nickname.
C8_Witness ==
    /\ config_file.state = "written"
    /\ Len(config_file.users) >= 3
    /\ config_file.users # final_accounts
    /\ \E i, j \in 1..Len(config_file.users) :
           i < j /\ config_file.users[i].nickname = config_file.users[j].nickname

\* C9: an array of single-key objects is read as compact (key = nickname,
\* value = token), whatever the key is called and also when it is empty;
\* otherwise an array of objects with both keys is read as explicit;
\* anything else ends the run with status 1 and no account.
C9_ShapeDecision ==
    (json_str.kind = "json" /\ pc # "parse") =>
        IF json_str.isList /\ AllSingleKey(json_str.items)
        THEN /\ shape = "compact"
             /\ pc \in {"bulk", "standalone"} =>
                    \A i \in 1..Len(final_accounts) :
                        \E k \in 1..Len(json_str.items) :
                            LET p == json_str.items[k].kv[1]
                            IN  /\ final_accounts[i].token = p.v
                                /\ p.k # <<>> =>
                                       final_accounts[i].nickname = Str(p.k)
        ELSE IF json_str.isList /\ AllBothKeys(json_str.items)
        THEN /\ shape = "explicit"
             /\ pc \in {"bulk", "standalone"} =>
                    \A i \in 1..Len(final_accounts) :
                        \E k \in 1..Len(json_str.items) :
                            final_accounts[i].token =
                                FieldOf(json_str.items[k], KEY_TOKEN)
        ELSE /\ pc = "done"
             /\ exit_status = 1
             /\ shape = "none"
             /\ final_accounts = <<>>

\* {"token": "t1"} and {"nickname": "t2"} were read as compact entries.
C9_Witness ==
    /\ pc = "standalone"
    /\ shape = "compact"
    /\ \E i, j \in 1..Len(final_accounts) :
           /\ final_accounts[i] = Account(Str(KEY_TOKEN), Str(T1))
           /\ final_accounts[j] = Account(Str(KEY_NICKNAME), Str(T2))

\* C10: the standalone nickname stored is the value with its surrounding
\* whitespace removed and then, if that ends with "_END", without these
\* four characters; the fixed placeholder if nothing is left; and the step
\* does not change the counter of unnamed bulk accounts.
NonBlank(s) == {i \in 1..Len(s) : s[i] \notin Whitespace}

Trimmed(s) ==
    IF NonBlank(s) = {} THEN <<>>
    ELSE SubSeq(s, CHOOSE i \in NonBlank(s) : \A j \in NonBlank(s) : i <= j,
                   CHOOSE i \in NonBlank(s) : \A j \in NonBlank(s) : i >= j)

WithoutMarker(s) ==
    IF Len(s) >= 4 /\ SubSeq(s, Len(s) - 3, Len(s)) = <<95, 69, 78, 68>>
    THEN SubSeq(s, 1, Len(s) - 4)
    ELSE s

ExpectedStandaloneNickname ==
    LET r == WithoutMarker(Trimmed(env_nickname))
    IN  IF r = <<>>
        THEN <<26410, 21629, 21517, 36134, 21495, 45, 29420, 31435>>
        ELSE r

====
